---- MODULE Spec2Model ----
(***************************************************************************)
(* Model of the article store of cwtr (src/db/postgres_connector.py): the  *)
(* articles table with its uniqueness constraints, the novelty check, the  *)
(* batched embedding call, the guarded upsert of save_articles, the        *)
(* paginated listing of get_articles_filtered and semantic_search; of the  *)
(* search endpoint (src/api/main.py); of the adapters                      *)
(* (src/website_scrappers) and of run_all_scrapers, run_scraper_job and    *)
(* the scheduling loop (src/main.py).                                      *)
(*                                                                         *)
(* Values.  Every column value is a natural number; 0 stands for Python    *)
(* None / SQL NULL.  The embedding vector that the provider computes for a *)
(* text t is the negative number -t, so a vector is never confused with a  *)
(* text or with NULL and a vector paired with the wrong text is visible.   *)
(***************************************************************************)
EXTENDS Integers, Sequences, FiniteSets, TLC

VARIABLES
    store,      \* the committed rows of table articles (a set of rows)
    call,       \* what the last save_articles call did (its log lines and its outcome)
    wpc,        \* concurrent writers: position of each writer inside save_articles
    wtodo,      \* concurrent writers: candidates not yet looked up by check_duplicates
    wnew,       \* concurrent writers: new_articles collected so far
    listing,    \* a client paging through get_articles_filtered
    hits,       \* what the last call of semantic_search gave back
    reply,      \* the last response of POST /articles/search
    results,    \* one scheduled run: the results of gather, one slot per adapter
    ended,      \* one scheduled run: the adapter tasks that have ended
    fetch,      \* one scheduled run: the last call of run_scraper (listing and output)
    tally,      \* one scheduled run: upstream items read and adapters that failed
    run,        \* one scheduled run: how far it is, and the batch of run_all_scrapers
    cleaning,   \* clean_content: a content text and what cleaning it made of it
    phase,      \* requests in flight: position of each adapter in get_articles_async
    inflight,   \* requests in flight: requests each adapter has sent and not got back
    pc,         \* scheduler: position of the process in main and run_scraper_job
    job,        \* scheduler: the run in progress (batch, connection, outcome)
    waited      \* scheduler: minutes slept since the last run ended

storeVars == <<store, call, wpc, wtodo, wnew, listing>>

searchVars == <<hits, reply>>

scrapeVars == <<results, ended, fetch, tally, run, cleaning>>

flightVars == <<phase, inflight>>

schedVars == <<pc, job, waited>>

\* what the store operations leave alone
beyondStore == <<searchVars, scrapeVars, flightVars, schedVars>>

vars == <<storeVars, searchVars, scrapeVars, flightVars, schedVars>>

-----------------------------------------------------------------------------
(* Bounds of the model and constants of the program *)

Null == 0

\* save_articles: batch_size = 20
batch_size == 20

\* psycopg2.extras.execute_values sends the rows in statements of page_size
\* rows; the call in save_articles passes no page_size, so the default applies.
execute_values_page_size == 100

\* longest candidate batch handed to save_articles in Spec
MaxBatch == 2

\* longest candidate batch of a writer in SpecConc
MaxConcBatch == 1

\* SpecList: the table holds at most MaxRows rows, a page has at most
\* MaxPageSize articles
MaxRows == 3

MaxPageSize == 2

\* longest candidate batch in SpecBulk: long enough for a second embedding batch
MaxBulk == 22

\* SpecSearch: the largest limit asked for
MaxLimit == 2

\* SpecScrape: upstream items read in one run, over all the adapters
MaxItems == 2

\* SpecClean: longest content text, in characters
MaxText == 5

\* SpecSched: longest batch a run hands to save_articles
MaxJobBatch == 2

\* config.SCRAPER_CONFIG
past_period == 60

scraper_page_size == 20

max_concurrent == 20

run_interval == 60

Min(a, b) == IF a < b THEN a ELSE b

Max(a, b) == IF a < b THEN b ELSE a

-----------------------------------------------------------------------------
(* Articles and rows *)

Writers == {1, 2}

\* a candidate article as a scraper emits it and filter_articles_by_time
\* completes it (the keys save_articles and check_duplicates read)
\* The texts are numbered: content 2n - 1 and 2n have the clean form n.  The
\* descriptive fields are numbered by the scrape that read them, like the text;
\* a source has one url, and the url of an article is made from its slug.
Art(id, slug, title, sourceName, clean, publishedAt) ==
    [id |-> id, slug |-> slug, title |-> title, sourceName |-> sourceName,
     content |-> 2 * clean, clean_content |-> clean, publishedAt |-> publishedAt,
     authorName |-> clean, category |-> clean, sourceUrl |-> sourceName,
     imageUrl |-> clean, articleUrl |-> slug, tags |-> clean]

\* the empty list [] of a tags value (a list of tags is a positive number, NULL
\* is Null)
EmptyList == 0 - 2

\* one tuple of the VALUES list built by save_articles, as the row it becomes:
\* createdAt is datetime.now(timezone.utc) of the call, updatedAt is not in the
\* column list and takes its default CURRENT_TIMESTAMP
Row(article, embedding, now) ==
    [id |-> article.id, slug |-> article.slug, title |-> article.title,
     content |-> article.content, clean_content |-> article.clean_content,
     publishedAt |-> article.publishedAt, authorName |-> article.authorName,
     category |-> article.category, sourceName |-> article.sourceName,
     sourceUrl |-> article.sourceUrl, imageUrl |-> article.imageUrl,
     articleUrl |-> article.articleUrl, tags |-> article.tags,
     embeddings |-> embedding, createdAt |-> now, updatedAt |-> now]

\* the time of a call, in ticks: later than every time written in the table
RECURSIVE Latest(_)
Latest(table) ==
    IF table = {} THEN 0
    ELSE LET r == CHOOSE x \in table : TRUE
         IN Max(Max(r.createdAt, r.updatedAt), Latest(table \ {r}))

Clock(table) == Latest(table) + 1

\* candidates of Spec: two ids, and four (slug, title, sourceName) triples that
\* pairwise share the slug key, the title key, both, neither (only the source
\* differs) or nothing at all; a title can be missing (Decrypt emits
\* article.get("title"), which may be None)
Ids == {1, 2}

Keys == {<<1, 1, 1>>, <<1, Null, 1>>, <<2, 1, 1>>, <<2, 1, 2>>}

Articles == {Art(i, k[1], k[2], k[3], i, Null) : i \in Ids, k \in Keys}

SeqsUpTo(S, n) == UNION {[1..k -> S] : k \in 0..n}

Batches == SeqsUpTo(Articles, MaxBatch)

\* candidates of SpecBulk: article k of a long listing, all keys distinct
BulkArt(k) == Art(k, k, k, 1, k, Null)

Listing(n) == [i \in 1..n |-> BulkArt(i)]

\* a long listing, alone or followed by its first article once more
BulkBatches ==
    {Listing(n) : n \in batch_size..MaxBulk}
    \cup {Listing(n) \o <<BulkArt(1)>> : n \in batch_size..MaxBulk}

-----------------------------------------------------------------------------
(* SQL comparison and the constraints of the table *)

\* SQL "=": a comparison with NULL is never true
SqlEq(a, b) == a # Null /\ b # Null /\ a = b

SameId(r, a) == SqlEq(r.id, a.id)

SameSlugSource(r, a) == SqlEq(r.slug, a.slug) /\ SqlEq(r.sourceName, a.sourceName)

SameTitleSource(r, a) == SqlEq(r.title, a.title) /\ SqlEq(r.sourceName, a.sourceName)

\* a novelty check that forgets the id clause
EquivalentWithoutId(r, a) == SameSlugSource(r, a) \/ SameTitleSource(r, a)

\* WHERE id = %s OR (slug = %s AND sourceName = %s) OR (title = %s AND sourceName = %s)
Equivalent(r, a) == SameId(r, a) \/ SameSlugSource(r, a) \/ SameTitleSource(r, a)

\* a table created without the two composite constraints
NoUniqueConstraints(table, v) == FALSE

\* CONSTRAINT articles_unique_slug_source, articles_unique_title_source: a new
\* row whose id is free is refused when one of these keys is taken
ViolatesUnique(table, v) ==
    \E r \in table : SameSlugSource(r, v) \/ SameTitleSource(r, v)

-----------------------------------------------------------------------------
(* check_duplicates *)

IsNew(table, article) == ~ \E r \in table : Equivalent(r, article)

\* a novelty check that lets every candidate through
check_nothing(table, articles) == articles

\* for article in articles: SELECT ...; if not cur.fetchone():
\* new_articles.append(article)
check_duplicates(table, articles) ==
    SelectSeq(articles, LAMBDA a : IsNew(table, a))

-----------------------------------------------------------------------------
(* get_embeddings and the batching loop of save_articles *)

\* the vector the provider computes for a text
Vec(text) == 0 - text

\* what one call of the provider can do: answer with one vector per text,
\* answer with the last vector missing, or fail
Outcomes == {"ok", "short", "raise"}

get_embeddings(texts, outcome) ==
    IF outcome = "ok" THEN [i \in 1..Len(texts) |-> Vec(texts[i])]
    ELSE [i \in 1..(Len(texts) - 1) |-> Vec(texts[i])]

\* number of provider calls for n new articles: len(range(0, n, batch_size))
NumBatches(n) == (n + batch_size - 1) \div batch_size

\* batch = new_articles[i : i + batch_size], for the k-th pass of the loop
BatchOf(new_articles, k) ==
    SubSeq(new_articles, (k - 1) * batch_size + 1,
           Min(k * batch_size, Len(new_articles)))

Texts(batch) == [i \in 1..Len(batch) |-> batch[i].clean_content]

\* all_embeddings after the first k passes of the loop (no pass raised)
RECURSIVE AllEmbeddings(_, _, _)
AllEmbeddings(new_articles, prov, k) ==
    IF k = 0 THEN <<>>
    ELSE AllEmbeddings(new_articles, prov, k - 1)
         \o get_embeddings(Texts(BatchOf(new_articles, k)), prov[k])

\* a VALUES list that keeps every new article and pads the missing vectors
\* with None (zip_longest instead of zip)
ValuesPadded(new_articles, all_embeddings, now) ==
    [i \in 1..Len(new_articles) |->
        Row(new_articles[i],
            IF i <= Len(all_embeddings) THEN all_embeddings[i] ELSE Null, now)]

\* for article, embedding in zip(new_articles, all_embeddings)
Values(new_articles, all_embeddings, now) ==
    [i \in 1..Min(Len(new_articles), Len(all_embeddings)) |->
        Row(new_articles[i], all_embeddings[i], now)]

-----------------------------------------------------------------------------
(* INSERT ... ON CONFLICT (id) DO UPDATE ... WHERE ... *)

\* the WHERE of the DO UPDATE, evaluated on the conflicting row r and the
\* proposed row v
UpdateGuard(r, v) == SameId(r, v) \/ SameSlugSource(r, v) \/ SameTitleSource(r, v)

\* a DO UPDATE that sets every column to the proposed value
UpdatedWholeRow(r, v) == v

\* DO UPDATE SET content = EXCLUDED.content, clean_content =
\* EXCLUDED.clean_content, embeddings = EXCLUDED.embeddings, updatedAt =
\* CURRENT_TIMESTAMP
Updated(r, v) ==
    [r EXCEPT !.content = v.content, !.clean_content = v.clean_content,
              !.embeddings = v.embeddings, !.updatedAt = v.updatedAt]

\* One INSERT statement over the rows vals[i..j]; touched are the ids this
\* statement has inserted or updated already, nupd the rows it has updated.
\* Result: ok, the new table and the number of rows updated.
\*   - id NULL: the primary key refuses it;
\*   - id present: the arbiter index conflicts; a row this statement already
\*     affected cannot be affected again (cardinality violation), otherwise
\*     the row is updated when the guard holds;
\*   - id free: the row is inserted unless another unique constraint refuses it.
RECURSIVE InsertStatement(_, _, _, _, _, _)
InsertStatement(table, vals, i, j, touched, nupd) ==
    IF i > j THEN [ok |-> TRUE, table |-> table, updated |-> nupd]
    ELSE LET v == vals[i]
             refused == [ok |-> FALSE, table |-> table, updated |-> nupd]
         IN
         IF v.id = Null THEN refused
         ELSE IF \E r \in table : r.id = v.id
         THEN IF v.id \in touched THEN refused
              ELSE LET r == CHOOSE x \in table : x.id = v.id IN
                   IF UpdateGuard(r, v)
                   THEN InsertStatement((table \ {r}) \cup {Updated(r, v)},
                                        vals, i + 1, j, touched \cup {v.id}, nupd + 1)
                   ELSE InsertStatement(table, vals, i + 1, j, touched, nupd)
         ELSE IF ViolatesUnique(table, v) THEN refused
         ELSE InsertStatement(table \cup {v}, vals, i + 1, j, touched \cup {v.id}, nupd)

\* execute_values: one statement per page of execute_values_page_size rows,
\* all in the transaction of the call
RECURSIVE execute_values(_, _, _, _)
execute_values(table, vals, from, nupd) ==
    IF from > Len(vals) THEN [ok |-> TRUE, table |-> table, updated |-> nupd]
    ELSE LET to == Min(from + execute_values_page_size - 1, Len(vals))
             st == InsertStatement(table, vals, from, to, {}, nupd)
         IN IF st.ok THEN execute_values(st.table, vals, to + 1, st.updated) ELSE st

-----------------------------------------------------------------------------
(* save_articles, one call running alone *)

\* the store can fail a round trip (connection loss): during the novelty
\* check or during the insert
Faults == {"none", "check", "insert"}

\* what a call leaves behind for its caller and in its log
\*   raised: the call raised (after conn.rollback()) instead of returning
\*   found : "Found N new articles" (-1 when the check itself failed)
\*   sent  : texts handed to the provider, over all passes of the loop
\*   got   : vectors received from the provider
\*   fault, prov: what the store and the provider did during the call
\*   twins : two of the new articles are equivalent to each other
\*   updated: rows the committed insert updated through ON CONFLICT
Call(raised, found, sent, got, fault, prov, twins, updated) ==
    [raised |-> raised, found |-> found, sent |-> sent, got |-> got,
     fault |-> fault, prov |-> prov, twins |-> twins, updated |-> updated]

\* calls that end before the embedding loop
CheckFailed == Call(TRUE, -1, 0, 0, "check", <<>>, FALSE, 0)

NothingNew == Call(FALSE, 0, 0, 0, "none", <<>>, FALSE, 0)

NoCall == Call(FALSE, -1, 0, 0, "none", <<>>, FALSE, 0)

Twins(new_articles) ==
    \E i, j \in 1..Len(new_articles) :
        i < j /\ Equivalent(new_articles[i], new_articles[j])

\* a call that leaves the effects of its failed statements in the table
NoRollback(before, partial) == partial

\* except: self.conn.rollback(): the table as it was before the call, whatever
\* the statements of the call had done to it
Rollback(before, partial) == before

\* index of the first pass of the loop whose provider call raises, 0 if none
FirstRaise(prov) ==
    IF \E k \in 1..Len(prov) : prov[k] = "raise"
    THEN CHOOSE k \in 1..Len(prov) :
            prov[k] = "raise" /\ \A m \in 1..(k - 1) : prov[m] # "raise"
    ELSE 0

\* texts sent to the provider when the loop stops at pass stop (0: runs through)
Sent(new_articles, stop) ==
    IF stop = 0 THEN Len(new_articles)
    ELSE Min(stop * batch_size, Len(new_articles))

\* texts = [article["clean_content"] for article in batch], over the passes
\* of the loop up to pass stop (0: every pass)
SentTexts(new_articles, stop) ==
    Texts(SubSeq(new_articles, 1, Sent(new_articles, stop)))

\* save_articles from "Get embeddings only for new articles" on: the embedding
\* loop, the VALUES list and the insert, on the table as committed when the
\* insert runs.  Result: the table the call commits (unchanged after the
\* rollback), what the call did, and the texts it handed to the provider.
Persist(table, new_articles, fault, prov) ==
    LET n == Len(new_articles)
        tw == Twins(new_articles)
        stop == FirstRaise(prov)
    IN
    IF stop # 0
    THEN [table |-> Rollback(table, table),
          call |-> Call(TRUE, n, Sent(new_articles, stop),
                        Len(AllEmbeddings(new_articles, prov, stop - 1)),
                        fault, prov, tw, 0),
          texts |-> SentTexts(new_articles, stop)]
    ELSE LET all_embeddings == AllEmbeddings(new_articles, prov, Len(prov))
             ins == execute_values(table,
                                    Values(new_articles, all_embeddings, Clock(table)),
                                    1, 0)
             c(raised, nupd) ==
                 Call(raised, n, n, Len(all_embeddings), fault, prov, tw, nupd)
             texts == SentTexts(new_articles, 0)
         IN IF fault = "insert" \/ ~ ins.ok
            THEN [table |-> Rollback(table, ins.table), call |-> c(TRUE, 0),
                  texts |-> texts]
            ELSE [table |-> ins.table, call |-> c(FALSE, ins.updated),
                  texts |-> texts]

\* the transaction of one call running alone
SaveResult(table, articles, fault, prov) ==
    IF fault = "check"
    THEN [table |-> Rollback(table, table), call |-> CheckFailed,
          texts |-> <<>>]
    ELSE LET new_articles == check_duplicates(table, articles) IN
         IF new_articles = <<>>
         THEN [table |-> table, call |-> NothingNew, texts |-> <<>>]
         ELSE Persist(table, new_articles, fault, prov)

\* the provider is called once per pass of the loop, and not at all when the
\* check fails or finds nothing new
ProvChoices(table, articles, fault) ==
    IF fault = "check" THEN {<<>>}
    ELSE [1..NumBatches(Len(check_duplicates(table, articles))) -> Outcomes]

SaveArticles(articles) ==
    \E fault \in Faults :
      \E prov \in ProvChoices(store, articles, fault) :
        LET res == SaveResult(store, articles, fault, prov) IN
        /\ store' = res.table
        /\ call' = res.call
        /\ UNCHANGED <<wpc, wtodo, wnew, listing, beyondStore>>

-----------------------------------------------------------------------------
(* save_articles under concurrent writers (two scheduler instances)         *)
(*                                                                         *)
(* Each writer has its own connection.  Under READ COMMITTED every SELECT   *)
(* of check_duplicates sees the rows committed so far, so another writer    *)
(* can commit between two look-ups and between the check and the insert.    *)
(* The provider calls do not touch the store; the INSERT and the commit     *)
(* that follows it take effect together (a conflicting INSERT of another    *)
(* writer waits for that commit).                                           *)

\* candidates writer w can hold: two ids, two unrelated (slug, title, source)
\* triples; the text is the writer's own scrape of the article
ConcKeys == {<<1, 1, 1>>, <<2, 2, 2>>}

ConcArticles(w) ==
    {Art(i, k[1], k[2], k[3], 2 * (w - 1) + i, Null) : i \in Ids, k \in ConcKeys}

ConcBatches(w) == SeqsUpTo(ConcArticles(w), MaxConcBatch)

\* run_scraper_job: db.save_articles(articles); an empty batch returns at once
Begin(w, articles) ==
    /\ wpc[w] = "idle"
    /\ wtodo' = [wtodo EXCEPT ![w] = articles]
    /\ wnew' = [wnew EXCEPT ![w] = <<>>]
    /\ wpc' = [wpc EXCEPT ![w] = IF articles = <<>> THEN "idle" ELSE "check"]
    /\ call' = IF articles = <<>> THEN NothingNew ELSE call
    /\ UNCHANGED <<store, listing, beyondStore>>

\* one pass of the loop of check_duplicates: one SELECT on the committed rows;
\* after the last pass the call returns when nothing is new
CheckOne(w) ==
    /\ wpc[w] = "check"
    /\ \E fault \in {"none", "check"} :
         IF fault = "check"
         THEN /\ wpc' = [wpc EXCEPT ![w] = "idle"]
              /\ wtodo' = [wtodo EXCEPT ![w] = <<>>]
              /\ wnew' = [wnew EXCEPT ![w] = <<>>]
              /\ call' = CheckFailed
         ELSE LET article == Head(wtodo[w])
                  new_articles == wnew[w] \o check_duplicates(store, <<article>>)
                  last == Len(wtodo[w]) = 1
              IN /\ wtodo' = [wtodo EXCEPT ![w] = Tail(wtodo[w])]
                 /\ wnew' = [wnew EXCEPT ![w] =
                                IF last /\ new_articles = <<>> THEN <<>> ELSE new_articles]
                 /\ wpc' = [wpc EXCEPT ![w] =
                                IF ~ last THEN "check"
                                ELSE IF new_articles = <<>> THEN "idle" ELSE "embed"]
                 /\ call' = IF last /\ new_articles = <<>> THEN NothingNew ELSE call
    /\ UNCHANGED <<store, listing, beyondStore>>

\* the embedding loop, then the insert and the commit (or the rollback)
EmbedInsert(w) ==
    /\ wpc[w] = "embed"
    /\ \E fault \in {"none", "insert"} :
         \E prov \in [1..NumBatches(Len(wnew[w])) -> Outcomes] :
           LET res == Persist(store, wnew[w], fault, prov) IN
           /\ store' = res.table
           /\ call' = res.call
    /\ wpc' = [wpc EXCEPT ![w] = "idle"]
    /\ wnew' = [wnew EXCEPT ![w] = <<>>]
    /\ UNCHANGED <<wtodo, listing, beyondStore>>

-----------------------------------------------------------------------------
(* get_articles_filtered *)

Sources == {1, 2}

Dates == {1, 2}

\* the tables of SpecList: rows with distinct keys, from either source, with a
\* known or an unknown publishedAt
\* the tags of row k: NULL, the empty list or a list, in turn
ListTags(k) == IF k % 3 = 1 THEN Null ELSE IF k % 3 = 2 THEN EmptyList ELSE k

ListRow(k, publishedAt) ==
    [Row(Art(k, k, k, 1 + (k % 2), k, publishedAt), Vec(k), 1)
        EXCEPT !.tags = ListTags(k)]

ListStores ==
    UNION {{{ListRow(k, f[k]) : k \in S} : f \in [S -> Dates \cup {Null}]} :
           S \in SUBSET (1..MaxRows)}

\* WHERE 1=1 [AND sourceName = %s]: "if source_name:" skips the clause for
\* None
Filtered(table, source_name) ==
    IF source_name = Null THEN table
    ELSE {r \in table : SqlEq(r.sourceName, source_name)}

\* ORDER BY publishedAt DESC NULLS LAST: p may come before q
DescNullsLast(p, q) == q = Null \/ (p # Null /\ p >= q)

Sorted(s) ==
    \A i, j \in 1..Len(s) : i < j => DescNullsLast(s[i].publishedAt, s[j].publishedAt)

Perms(S) ==
    {f \in [1..Cardinality(S) -> S] : \A i, j \in 1..Cardinality(S) : i # j => f[i] # f[j]}

\* the orders in which one execution of the query can produce the rows: the
\* ORDER BY fixes nothing among rows of equal publishedAt
Orderings(rows) == {s \in Perms(rows) : Sorted(s)}

\* an offset counted from the page number itself
OffsetFromPage(page, page_size) == page * page_size

\* OFFSET (page - 1) * page_size
Offset(page, page_size) == (page - 1) * page_size

\* LIMIT %s OFFSET %s
Window(order, page, page_size) ==
    SubSeq(order, Offset(page, page_size) + 1,
           Min(Offset(page, page_size) + page_size, Len(order)))

\* tags as they are stored
TagsAsStored(tags) == tags

\* if article.get('tags') is None: article['tags'] = []
TagsOrEmpty(tags) == IF tags = Null THEN EmptyList ELSE tags

\* the columns selected: all except embeddings (isoformat() renders each
\* timestamp as text, one text per timestamp)
Listed(r) ==
    [id |-> r.id, slug |-> r.slug, title |-> r.title, content |-> r.content,
     clean_content |-> r.clean_content, publishedAt |-> r.publishedAt,
     authorName |-> r.authorName, category |-> r.category,
     sourceName |-> r.sourceName, sourceUrl |-> r.sourceUrl,
     imageUrl |-> r.imageUrl, articleUrl |-> r.articleUrl,
     tags |-> TagsOrEmpty(r.tags), createdAt |-> r.createdAt,
     updatedAt |-> r.updatedAt]

\* ArticleResponse, built from a dict of get_articles_filtered: a declared
\* field takes the value under the key of its own name, its default otherwise.
\* The keys of the dict are the column names as the store gives them, in lower
\* case: id, slug, title, content, clean_content and tags are found, the
\* fields spelt with capitals are not and stay None.
ArticleResponse(a) ==
    [id |-> a.id, slug |-> a.slug, title |-> a.title, content |-> a.content,
     clean_content |-> a.clean_content, publishedAt |-> Null,
     authorName |-> Null, category |-> Null, sourceName |-> Null,
     sourceUrl |-> Null, imageUrl |-> Null, articleUrl |-> Null,
     tags |-> a.tags, createdAt |-> Null, updatedAt |-> Null]

\* SELECT COUNT(*) FROM articles WHERE 1=1 [AND sourceName = %s]
Count(table, source_name) == Cardinality(Filtered(table, source_name))

\* pages needed for total rows: ceil(total / page_size)
NumPages(total, page_size) == (total + page_size - 1) \div page_size

\* GET /articles: one call of get_articles_filtered.  The client asks for page
\* 1 with any page size and filter, or for the page after the last one it got
\* (up to one page past the end); listing keeps the pages of its walk and the
\* articles of the last ArticlesPage.
GetArticlesFiltered(page, page_size, source_name) ==
    /\ \/ page = 1
       \/ /\ page = Len(listing.pages) + 1
          /\ page_size = listing.page_size
          /\ source_name = listing.source_name
          /\ page <= NumPages(listing.total, page_size) + 1
    /\ \E order \in Orderings(Filtered(store, source_name)) :
         LET articles == Window(order, page, page_size)
             total == Count(store, source_name)
         IN listing' =
              [page_size |-> page_size, source_name |-> source_name,
               pages |-> (IF page = 1 THEN <<>> ELSE listing.pages)
                         \o <<[i \in 1..Len(articles) |-> Listed(articles[i])]>>,
               total |-> total,
               response |-> [i \in 1..Len(articles) |->
                                ArticleResponse(Listed(articles[i]))]]
    /\ UNCHANGED <<store, call, wpc, wtodo, wnew, beyondStore>>

-----------------------------------------------------------------------------
(* semantic_search *)

\* the prompts of SpecSearch (texts, numbered like the clean_content texts)
Prompts == {1, 2}

\* pgvector's "<=>" on the vectors of the model: how far apart two vectors are
Distance(u, v) == IF u < v THEN v - u ELSE u - v

\* 1 - (embeddings <=> %s::vector) as similarity
Similarity(r, prompt_embedding) == 1 - Distance(r.embeddings, prompt_embedding)

\* WHERE 1=1 [AND publishedAt >= %s] [AND publishedAt <= %s]: a clause is added
\* for a bound that is given, and a comparison with a NULL publishedAt is not
\* true
Admitted(table, published_after, published_before) ==
    {r \in table :
        /\ published_after # Null
            => (r.publishedAt # Null /\ r.publishedAt >= published_after)
        /\ published_before # Null
            => (r.publishedAt # Null /\ r.publishedAt <= published_before)}

\* an ORDER BY similarity without DESC
SimilarityAscending(s, p) ==
    \A i, j \in 1..Len(s) : i < j => Similarity(s[i], p) <= Similarity(s[j], p)

\* ORDER BY similarity DESC
SimilarityDesc(s, p) ==
    \A i, j \in 1..Len(s) : i < j => Similarity(s[i], p) >= Similarity(s[j], p)

\* the orders in which the query can produce the admitted rows (rows of equal
\* similarity in any order)
Ranked(rows, p) == {s \in Perms(rows) : SimilarityDesc(s, p)}

\* LIMIT %s
Limit(order, limit) == SubSeq(order, 1, Min(limit, Len(order)))

\* dict(row) of SELECT *, ... as similarity: the columns fetched are named in
\* lower case, so the isoformat() loop over 'publishedAt', 'createdAt' and
\* 'updatedAt' finds none of them and leaves the row as fetched
Hit(r, p) ==
    [id |-> r.id, slug |-> r.slug, title |-> r.title, content |-> r.content,
     clean_content |-> r.clean_content, publishedAt |-> r.publishedAt,
     authorName |-> r.authorName, category |-> r.category,
     sourceName |-> r.sourceName, sourceUrl |-> r.sourceUrl,
     imageUrl |-> r.imageUrl, articleUrl |-> r.articleUrl, tags |-> r.tags,
     embeddings |-> r.embeddings, createdAt |-> r.createdAt,
     updatedAt |-> r.updatedAt, similarity |-> Similarity(r, p)]

\* a call of semantic_search whose caller has not read the result yet: its
\* arguments, what the provider did, whether it raised, and the rows it returned
Hits(called, raised, rows, prompt, limit, published_after, published_before, outcome) ==
    [called |-> called, raised |-> raised, rows |-> rows, prompt |-> prompt,
     limit |-> limit, published_after |-> published_after,
     published_before |-> published_before, outcome |-> outcome]

NoHits == Hits(FALSE, FALSE, <<>>, Null, 0, Null, Null, "ok")

\* semantic_search(prompt, limit, published_after, published_before).  It raises
\* when the provider raises, when the provider's answer holds no vector
\* (get_embeddings([prompt])[0]) and when the store refuses a negative LIMIT.
SemanticSearch(prompt, limit, published_after, published_before) ==
    /\ ~ hits.called /\ ~ reply.called
    /\ \E outcome \in Outcomes :
         LET answer == IF outcome = "raise" THEN <<>>
                       ELSE get_embeddings(<<prompt>>, outcome)
             h(raised, rows) ==
                 Hits(TRUE, raised, rows, prompt, limit, published_after,
                      published_before, outcome)
         IN IF answer = <<>> \/ limit < 0
            THEN hits' = h(TRUE, <<>>)
            ELSE \E order \in Ranked(Admitted(store, published_after, published_before),
                                     answer[1]) :
                   LET top == Limit(order, limit) IN
                   hits' = h(FALSE, [i \in 1..Len(top) |-> Hit(top[i], answer[1])])
    /\ UNCHANGED <<storeVars, reply, scrapeVars, flightVars, schedVars>>

-----------------------------------------------------------------------------
(* POST /articles/search *)

\* a request body: the prompt, and limit, published_after and published_before
\* each given or omitted (Null)
Body(prompt, limit, published_after, published_before) ==
    [prompt |-> prompt, limit |-> limit, published_after |-> published_after,
     published_before |-> published_before]

\* class SearchRequest(BaseModel): the object the handler gets has the declared
\* fields prompt, system_prompt and model (the last two with their defaults);
\* keys of the body that are not declared are left out
SearchRequest(body) ==
    [prompt |-> body.prompt, system_prompt |-> "default", model |-> "gpt-4o-mini"]

\* the attributes of the request that the call of db.semantic_search reads
HandlerReads == {"prompt", "limit", "published_after", "published_before"}

\* article["articleurl"]
ArticleUrl(r) == r.articleUrl

\* the key of the dict of sources: (article["sourcename"], article["sourceurl"])
SourceKey(r) == <<r.sourceName, r.sourceUrl>>

\* the keys of a dict built from the articles in order: each key once, at the
\* place where it is first seen
RECURSIVE FirstSeen(_)
FirstSeen(articles) ==
    IF articles = <<>> THEN <<>>
    ELSE LET front == FirstSeen(SubSeq(articles, 1, Len(articles) - 1))
             k == SourceKey(articles[Len(articles)])
         IN IF \E i \in 1..Len(front) : front[i] = k THEN front ELSE Append(front, k)

\* list({(sourcename, sourceurl): {"source_name": title, "source_url":
\* articleurl} for article in relevant_articles if title is not None}.values()):
\* a later article with the same key replaces the value of an earlier one
SourcesOf(relevant_articles) ==
    LET titled == SelectSeq(relevant_articles, LAMBDA a : a.title # Null)
        keys == FirstSeen(titled)
        last(k) == CHOOSE i \in 1..Len(titled) :
                      /\ SourceKey(titled[i]) = k
                      /\ \A j \in (i + 1)..Len(titled) : SourceKey(titled[j]) # k
    IN [n \in 1..Len(keys) |->
           [source_name |-> titled[last(keys[n])].title,
            source_url |-> ArticleUrl(titled[last(keys[n])])]]

\* a response the client has not read yet: the store and the providers were
\* available or not, the status, the sources of a success, and the body that
\* was sent
Reply(called, available, status, sources, body) ==
    [called |-> called, available |-> available, status |-> status,
     sources |-> sources, body |-> body]

NoReply == Reply(FALSE, TRUE, 0, <<>>, Body(Null, Null, Null, Null))

Bodies ==
    {Body(p, l, a, b) : p \in Prompts, l \in (1..MaxLimit) \cup {Null},
                        a \in Dates \cup {Null}, b \in Dates \cup {Null}}

\* the handler semantic_search of the API: every exception inside its try
\* block, the AttributeError of reading an attribute the request does not have
\* included, becomes a response with status 500
SearchEndpoint(body) ==
    /\ ~ hits.called /\ ~ reply.called
    /\ \E available \in BOOLEAN :
         LET request == SearchRequest(body) IN
         IF ~ available
         THEN reply' = Reply(TRUE, FALSE, 500, <<>>, body)
         ELSE IF ~ (HandlerReads \subseteq DOMAIN request)
         THEN reply' = Reply(TRUE, TRUE, 500, <<>>, body)
         ELSE \E order \in Ranked(Admitted(store, request.published_after,
                                           request.published_before),
                                  Vec(request.prompt)) :
                reply' = Reply(TRUE, TRUE, 200,
                               SourcesOf(Limit(order, request.limit)), body)
    /\ UNCHANGED <<storeVars, hits, scrapeVars, flightVars, schedVars>>

-----------------------------------------------------------------------------
(* The adapters and run_all_scrapers *)

\* run_all_scrapers: scrapers = [(BloombergScraper, "Bloomberg"), ...]
scrapers ==
    <<"Bloomberg", "Coindesk", "Cointelegraph", "Decrypt", "Forbes", "The Block",
      "Crypto News">>

\* the moment of the run, datetime.now(timezone.utc), in minutes
Now == 100

\* publication dates an upstream listing carries: one before the cutoff
\* Now - past_period, one after it
Old == Now - past_period - 1

Recent == Now

\* the empty string, which Python orders before every other string
EmptyString == 0 - 1

\* an item of an upstream listing: its date (Null: the item has none), and
\* whether processing it raises (a field of an unexpected type)
UpstreamItems ==
    {[date |-> d, bad |-> FALSE] : d \in {Null, Old, Recent}}
    \cup {[date |-> Null, bad |-> TRUE]}

UpstreamListings == SeqsUpTo(UpstreamItems, MaxItems)

\* publishedAt of an article whose item has no date: article.get("publishedAt")
\* in Decrypt, datetime.now() in Cryptonews, get(..., "") in the others
MissingDate(name) ==
    IF name = "Decrypt" THEN Null
    ELSE IF name = "Crypto News" THEN Now
    ELSE EmptyString

\* which of the keys imageUrl, articleUrl and tags an adapter's records have
OptionalKeys(name) ==
    IF name \in {"Decrypt", "Forbes"} THEN {}
    ELSE IF name = "The Block" THEN {"imageUrl", "articleUrl"}
    ELSE {"imageUrl", "articleUrl", "tags"}

\* the record adapter s builds for item i of its listing; none marks the None
\* that stands in a list where a record should be
Scraped(s, i, item) ==
    [none |-> FALSE,
     id |-> s * (MaxItems + 1) + i, slug |-> s * (MaxItems + 1) + i,
     title |-> s * (MaxItems + 1) + i, sourceName |-> s,
     content |-> s * (MaxItems + 1) + i,
     publishedAt |-> IF item.date = Null THEN MissingDate(scrapers[s]) ELSE item.date,
     keys |-> OptionalKeys(scrapers[s])]

NoneArticle ==
    [none |-> TRUE, id |-> Null, slug |-> Null, title |-> Null, sourceName |-> Null,
     content |-> Null, publishedAt |-> Null, keys |-> {}]

\* what an adapter does when processing one item raises:
\*   "abort": nothing catches it before get_articles_async, which returns []
\*            (asyncio.gather in Bloomberg, Coindesk, Decrypt; the loop of Forbes)
\*   "placeholder": format_article returns None and the None stays in the list
\*            (Cointelegraph)
\*   "omit": the item is skipped (The Block: "if result:"; Cryptonews: continue)
ItemFailure(name) ==
    IF name \in {"The Block", "Crypto News"} THEN "omit"
    ELSE IF name = "Cointelegraph" THEN "placeholder"
    ELSE "abort"

get_articles_async(s, items) ==
    LET all == [i \in 1..Len(items) |->
                   IF items[i].bad THEN NoneArticle ELSE Scraped(s, i, items[i])]
        failed == \E i \in 1..Len(items) : items[i].bad
    IN IF failed /\ ItemFailure(scrapers[s]) = "abort" THEN <<>>
       ELSE IF ItemFailure(scrapers[s]) = "placeholder" THEN all
       ELSE SelectSeq(all, LAMBDA a : ~ a.none)

\* run_scraper: an exception of the adapter (its constructor, its context
\* manager, get_articles_async) is caught and gives []
run_scraper(s, items, crash) ==
    IF crash THEN <<>> ELSE get_articles_async(s, items)

\* the last call of run_scraper
Fetch(called, scraper, items, crashed, out) ==
    [called |-> called, scraper |-> scraper, listing |-> items,
     crashed |-> crashed, out |-> out]

NoFetch == Fetch(FALSE, 0, <<>>, FALSE, <<>>)

\* One task of asyncio.gather(*tasks).  gather gives the results in the order
\* of its arguments whatever the order in which the tasks end, and the
\* adapters share no data: the tasks are taken in the order of the arguments.
RunScraper(s) ==
    /\ run.state = "gathering"
    /\ ended = 1..(s - 1)
    /\ \E crash \in BOOLEAN, items \in UpstreamListings :
         /\ tally.upstream + Len(items) <= MaxItems
         /\ crash => items = <<>>
         /\ LET out == run_scraper(s, items, crash) IN
            /\ results' = [results EXCEPT ![s] = out]
            /\ ended' = ended \cup {s}
            /\ fetch' = Fetch(TRUE, s, items, crash, out)
            /\ tally' = [upstream |-> tally.upstream + Len(items),
                         failed |-> tally.failed + (IF crash THEN 1 ELSE 0)]
    /\ UNCHANGED <<run, cleaning, storeVars, searchVars, flightVars, schedVars>>

\* the adapters that process the items of a listing as concurrent tasks
\* (asyncio.gather in Bloomberg, Coindesk and Decrypt, asyncio.create_task in
\* Cryptonews); the others await one item after the other
Concurrent == {"Bloomberg", "Coindesk", "Decrypt", "Crypto News"}

\* the orders in which the n item tasks of adapter s can end
Completions(s, n) ==
    IF scrapers[s] \in Concurrent THEN Permutations(1..n)
    ELSE {[i \in 1..n |-> i]}

\* the results of the tasks, each put in the slot of its task as the tasks end
\* in the order completion
RECURSIVE Fill(_, _, _)
Fill(slots, values, completion) ==
    IF completion = <<>> THEN slots
    ELSE Fill([slots EXCEPT ![Head(completion)] = values[Head(completion)]],
              values, Tail(completion))

\* await asyncio.gather(*tasks): the list of the results in the order of the
\* tasks
gather(values, completion) ==
    Fill([i \in 1..Len(values) |-> NoneArticle], values, completion)

\* process_articles_async on a listing whose items all process, the item
\* tasks ending in the order completion
process_articles_async(s, items, completion) ==
    gather([i \in 1..Len(items) |-> Scraped(s, i, items[i])], completion)

\* the listings of SpecJoin: every item processes and has a date
JoinListings ==
    SeqsUpTo({[date |-> d, bad |-> FALSE] : d \in {Old, Recent}}, MaxItems)

\* One task of asyncio.gather(*tasks) ending, in whatever order the tasks of
\* the adapters end: its result goes into the slot of the adapter.
EndScraper(s) ==
    /\ run.state = "gathering"
    /\ s \notin ended
    /\ \E items \in JoinListings :
         /\ tally.upstream + Len(items) <= MaxItems
         /\ \E completion \in Completions(s, Len(items)) :
              LET out == process_articles_async(s, items, completion) IN
              /\ results' = [results EXCEPT ![s] = out]
              /\ fetch' = Fetch(TRUE, s, items, FALSE, out)
         /\ tally' = [tally EXCEPT !.upstream = tally.upstream + Len(items)]
    /\ ended' = ended \cup {s}
    /\ UNCHANGED <<run, cleaning, storeVars, searchVars, flightVars, schedVars>>

RECURSIVE Concat(_)
Concat(pages) ==
    IF pages = <<>> THEN <<>> ELSE Head(pages) \o Concat(Tail(pages))

\* clean_content on numbered texts: the texts 2n - 1 and 2n (one with a link or
\* capitals, one without) have the same clean form n
CleanOf(content) == (content + 1) \div 2

\* clean_content on texts, which are sequences of characters.  The characters
\* of SpecClean: letters of both cases that spell the prefixes of a link, the
\* space and a character that is no letter.
Letters == {"h", "t", "p", "w", "H", "T", "P", "W"}

Alphabet == Letters \cup {" ", "."}

\* the end of the run of \S characters (any character but white space) that
\* starts at position j
RECURSIVE RunEnd(_, _)
RunEnd(text, j) ==
    IF j < Len(text) /\ text[j + 1] # " " THEN RunEnd(text, j + 1) ELSE j

\* where a match of http\S+|www.\S+ that starts at position i ends, 0 when
\* none starts there; the prefixes are matched as written, in lower case, and
\* the "." of the second alternative is any character, the space included
MatchEnd(text, i) ==
    IF i + 4 > Len(text) \/ text[i + 4] = " " THEN 0
    ELSE IF SubSeq(text, i, i + 3) = <<"h", "t", "t", "p">> THEN RunEnd(text, i + 4)
    ELSE IF SubSeq(text, i, i + 2) = <<"w", "w", "w">> THEN RunEnd(text, i + 4)
    ELSE 0

\* text = re.sub(r"http\S+|www.\S+", "", text), from position i on: the
\* leftmost matches, one after the other, are taken out
RECURSIVE StripLinks(_, _)
StripLinks(text, i) ==
    IF i > Len(text) THEN <<>>
    ELSE IF MatchEnd(text, i) # 0 THEN StripLinks(text, MatchEnd(text, i) + 1)
    ELSE <<text[i]>> \o StripLinks(text, i + 1)

\* text = re.sub(r"[^a-zA-Z\s]", " ", text)
LettersOnly(text) ==
    [i \in 1..Len(text) |->
        IF text[i] \in Letters \cup {" "} THEN text[i] ELSE " "]

\* text = " ".join(text.split()): the words of the text with one space between
\* them, none before the first and none after the last
RECURSIVE JoinSplit(_, _)
JoinSplit(text, i) ==
    IF i > Len(text) THEN <<>>
    ELSE IF text[i] = " " THEN JoinSplit(text, i + 1)
    ELSE LET e == RunEnd(text, i)
             rest == JoinSplit(text, e + 1)
         IN SubSeq(text, i, e) \o (IF rest = <<>> THEN <<>> ELSE <<" ">> \o rest)

\* text = text.lower()
lower(text) ==
    LET low == [c \in Alphabet |->
                   IF c = "H" THEN "h" ELSE IF c = "T" THEN "t"
                   ELSE IF c = "P" THEN "p" ELSE IF c = "W" THEN "w" ELSE c]
    IN [i \in 1..Len(text) |-> low[text[i]]]

\* clean_content(text)
clean_content(text) ==
    lower(JoinSplit(LettersOnly(StripLinks(text, 1)), 1))

\* a content text, how often it has been cleaned, and what cleaning it once
\* and cleaning the result again gave
Cleaning(text, passes, once, twice) ==
    [text |-> text, passes |-> passes, once |-> once, twice |-> twice]

\* article["clean_content"] = clean_content(article["content"])
CleanContent ==
    /\ cleaning.passes = 0
    /\ cleaning' = [cleaning EXCEPT !.passes = 1,
                                    !.once = clean_content(cleaning.text)]
    /\ UNCHANGED <<results, ended, fetch, tally, run, storeVars, searchVars,
                   flightVars, schedVars>>

\* clean_content on a text that clean_content returned
CleanAgain ==
    /\ cleaning.passes = 1
    /\ cleaning' = [cleaning EXCEPT !.passes = 2,
                                    !.twice = clean_content(cleaning.once)]
    /\ UNCHANGED <<results, ended, fetch, tally, run, storeVars, searchVars,
                   flightVars, schedVars>>

\* filter_articles_by_time, for one article: article["clean_content"] =
\* clean_content(article["content"]); the article is kept whatever its date
WithCleanContent(a) ==
    [none |-> a.none, id |-> a.id, slug |-> a.slug, title |-> a.title,
     sourceName |-> a.sourceName, content |-> a.content,
     clean_content |-> CleanOf(a.content), publishedAt |-> a.publishedAt,
     keys |-> a.keys]

\* sort(key=lambda x: x["publishedAt"], reverse=True) compares the keys: None
\* cannot be compared, neither with a string nor with None
Comparable(articles) ==
    Len(articles) < 2 \/ \A i \in 1..Len(articles) : articles[i].publishedAt # Null

\* a sort that puts a before the articles of its own key
InsertDescUnstable(sorted, a) ==
    LET n == Cardinality({i \in 1..Len(sorted) :
                            sorted[i].publishedAt > a.publishedAt})
    IN SubSeq(sorted, 1, n) \o <<a>> \o SubSeq(sorted, n + 1, Len(sorted))

\* the place of a in a list sorted in descending order: after the articles
\* whose key is not smaller (the sort is stable)
InsertDesc(sorted, a) ==
    LET n == Cardinality({i \in 1..Len(sorted) :
                            sorted[i].publishedAt >= a.publishedAt})
    IN SubSeq(sorted, 1, n) \o <<a>> \o SubSeq(sorted, n + 1, Len(sorted))

RECURSIVE SortDesc(_)
SortDesc(articles) ==
    IF articles = <<>> THEN <<>>
    ELSE InsertDesc(SortDesc(SubSeq(articles, 1, Len(articles) - 1)),
                    articles[Len(articles)])

\* how far a scheduled run is (gathering, returned, raised, saved), where it
\* raised, and the batch run_all_scrapers returned
Run(state, at, articles) == [state |-> state, at |-> at, articles |-> articles]

\* run_all_scrapers after the gather: extend, filter_articles_by_time (which
\* raises on a None in the list: None["content"]), sort
run_all_scrapers(gathered) ==
    LET all_articles == Concat(gathered) IN
    IF \E i \in 1..Len(all_articles) : all_articles[i].none
    THEN Run("raised", "filter", <<>>)
    ELSE LET filtered_articles ==
                 [i \in 1..Len(all_articles) |-> WithCleanContent(all_articles[i])]
         IN IF ~ Comparable(filtered_articles)
            THEN Run("raised", "sort", <<>>)
            ELSE Run("returned", "none", SortDesc(filtered_articles))

FanIn ==
    /\ run.state = "gathering"
    /\ ended = 1..Len(scrapers)
    /\ run' = run_all_scrapers(results)
    /\ UNCHANGED <<results, ended, fetch, tally, cleaning, storeVars, searchVars,
                   flightVars, schedVars>>

\* the candidate save_articles sees in a scraped article
Candidate(a) ==
    [Art(a.id, a.slug, a.title, a.sourceName, a.clean_content, a.publishedAt)
        EXCEPT !.content = a.content,
               !.tags = IF "tags" \in a.keys THEN a.content ELSE EmptyList]

\* the optional keys that the VALUES loop reads with article[...]; tags is read
\* with article.get("tags", [])
Subscripted == {"imageUrl", "articleUrl"}

\* save_articles on a batch of scraped articles.  The VALUES loop raises
\* KeyError on a new article without imageUrl or articleUrl, and the store
\* refuses '' as a TIMESTAMP WITH TIME ZONE; either way the call rolls back
\* and raises.
SaveScraped(table, articles, fault, prov) ==
    LET candidates == [i \in 1..Len(articles) |-> Candidate(articles[i])]
        new == SelectSeq(articles, LAMBDA a : IsNew(table, Candidate(a)))
        new_articles == check_duplicates(table, candidates)
        got == Len(AllEmbeddings(new_articles, prov, Len(prov)))
        n == Min(Len(new), got)
    IN IF fault = "check" \/ new = <<>> \/ FirstRaise(prov) # 0
       THEN SaveResult(table, candidates, fault, prov)
       ELSE IF \/ \E i \in 1..n : ~ (Subscripted \subseteq new[i].keys)
               \/ \E i \in 1..n : new[i].publishedAt = EmptyString
       THEN [table |-> Rollback(table, table),
             call |-> Call(TRUE, Len(new), Len(new), got, fault, prov,
                           Twins(new_articles), 0)]
       ELSE SaveResult(table, candidates, fault, prov)

\* run_scraper_job after run_all_scrapers has returned: db.save_articles(articles)
SaveBatch ==
    /\ run.state = "returned"
    /\ \E fault \in Faults :
         \E prov \in ProvChoices(store, [i \in 1..Len(run.articles) |->
                                            Candidate(run.articles[i])], fault) :
           LET res == SaveScraped(store, run.articles, fault, prov) IN
           /\ store' = res.table
           /\ call' = res.call
    /\ run' = Run("saved", "none", run.articles)
    /\ UNCHANGED <<wpc, wtodo, wnew, listing, results, ended, fetch, tally,
                   cleaning, searchVars, flightVars, schedVars>>

\* the caller has read what semantic_search returned, the client its response
TakeResult ==
    /\ hits.called \/ reply.called
    /\ hits' = NoHits
    /\ reply' = NoReply
    /\ UNCHANGED <<storeVars, scrapeVars, flightVars, schedVars>>

-----------------------------------------------------------------------------
(* Requests in flight during run_all_scrapers *)

\* the lengths of an upstream listing: empty, one item, a full page
Lengths == {0, 1, scraper_page_size}

\* how an adapter fetches the articles of its listing:
\*   "gathered": one task per article, all started together (asyncio.gather)
\*   "one by one": one request after the other
\*   "none": the listing carries the articles (The Block)
ItemRequests(name) ==
    IF name \in {"Bloomberg", "Coindesk", "Decrypt"} THEN "gathered"
    ELSE IF name = "The Block" THEN "none"
    ELSE "one by one"

\* the adapters whose article requests run inside "async with self.semaphore";
\* Bloomberg builds its semaphore and never acquires it
UsesSemaphore(name) == name \in {"Coindesk", "Decrypt", "Crypto News"}

\* the adapters that send their requests with the synchronous cloudscraper
\* client: until the answer is there the event loop runs no other task
Blocking(name) == name \in {"Cointelegraph", "Crypto News"}

\* adapter s can take a step: no other adapter holds the event loop
Free(s) ==
    \A t \in 1..Len(scrapers) :
        t # s => ~ (Blocking(scrapers[t]) /\ inflight[t] > 0)

\* run_scraper builds the adapter with max_concurrent, its own
\* asyncio.Semaphore(max_concurrent), and get_articles_async sends the request
\* for the listing
StartListing(s) ==
    /\ phase[s] = "idle"
    /\ Free(s)
    /\ phase' = [phase EXCEPT ![s] = "listing"]
    /\ inflight' = [inflight EXCEPT ![s] = 1]
    /\ UNCHANGED <<storeVars, searchVars, scrapeVars, schedVars>>

\* requests an adapter has in flight once the tasks for the n articles of its
\* listing have started
Started(name, n) ==
    IF ItemRequests(name) = "one by one" THEN Min(n, 1)
    ELSE IF UsesSemaphore(name) THEN Min(n, max_concurrent)
    ELSE n

\* the listing arrives with n articles, and the requests for the articles start
ListingArrives(s) ==
    /\ phase[s] = "listing"
    /\ Free(s)
    /\ \E n \in Lengths :
         IF ItemRequests(scrapers[s]) = "none" \/ n = 0
         THEN /\ phase' = [phase EXCEPT ![s] = "done"]
              /\ inflight' = [inflight EXCEPT ![s] = 0]
         ELSE /\ phase' = [phase EXCEPT ![s] = "items"]
              /\ inflight' = [inflight EXCEPT ![s] = Started(scrapers[s], n)]
    /\ UNCHANGED <<storeVars, searchVars, scrapeVars, schedVars>>

\* the answers to the article requests are there (for a gathered adapter, all
\* of them: the number in flight only falls until the gather returns; for the
\* others, the answer to the last request of the listing)
ItemsArrive(s) ==
    /\ phase[s] = "items"
    /\ Free(s)
    /\ phase' = [phase EXCEPT ![s] = "done"]
    /\ inflight' = [inflight EXCEPT ![s] = 0]
    /\ UNCHANGED <<storeVars, searchVars, scrapeVars, schedVars>>

-----------------------------------------------------------------------------
(* main and run_scraper_job *)

\* the batches run_all_scrapers hands to the job in SpecSched
JobBatches == SeqsUpTo({BulkArt(1), BulkArt(2)}, MaxJobBatch)

\* the run in progress: its batch, the connection of its PostgresConnector
\* ("none", "open", "closed"), how it ended ("none" while it runs, "ok",
\* "failed"), where it failed, where the run before it failed, the number in
\* "Total articles saved to database: N" and the rows the run added to the
\* table (both 0 until a run has ended without raising), and the texts its
\* save_articles call handed to the provider
Job(articles, conn, outcome, at, previous, reported, added, texts) ==
    [articles |-> articles, conn |-> conn, outcome |-> outcome, at |-> at,
     previous |-> previous, reported |-> reported, added |-> added,
     texts |-> texts]

NoJob == Job(<<>>, "none", "none", "none", "none", 0, 0, <<>>)

\* a job whose finally clause closes nothing
closeNothing(conn) == conn

\* PostgresConnector.close: if self.conn: self.conn.close()
close(conn) == IF conn = "open" THEN "closed" ELSE conn

\* main: run_scraper_job() on startup
RunAtStartup ==
    /\ pc = "startup"
    /\ pc' = "scrape"
    /\ UNCHANGED <<job, waited, storeVars, searchVars, scrapeVars, flightVars>>

\* schedule.run_pending(), the job being due: run_interval minutes have passed
RunPending ==
    /\ pc = "sleep"
    /\ waited = run_interval
    /\ pc' = "scrape"
    /\ job' = Job(<<>>, "none", "none", "none", job.at, 0, 0, <<>>)
    /\ waited' = 0
    /\ UNCHANGED <<storeVars, searchVars, scrapeVars, flightVars>>

\* while True: schedule.run_pending(); time.sleep(1), the job not being due:
\* the loop goes round, second after second, until run_interval minutes have
\* passed since the run ended
Sleep ==
    /\ pc = "sleep"
    /\ waited < run_interval
    /\ waited' = run_interval
    /\ UNCHANGED <<pc, job, storeVars, searchVars, scrapeVars, flightVars>>

\* articles = asyncio.run(run_all_scrapers()): a batch, or an exception, which
\* "except Exception" of run_scraper_job catches
JobScrape ==
    /\ pc = "scrape"
    /\ \/ \E articles \in JobBatches :
            /\ job' = [job EXCEPT !.articles = articles]
            /\ pc' = "connect"
       \/ /\ job' = [job EXCEPT !.outcome = "failed", !.at = "scrape"]
          /\ pc' = "sleep"
    /\ UNCHANGED <<waited, storeVars, searchVars, scrapeVars, flightVars>>

\* db = PostgresConnector(...): connect() and create_table().  When connect()
\* raises no connection was opened.  When create_table() raises the connector
\* was never bound to db; the exception holds the last reference to it, and
\* when the except clause of the job ends the connection is closed with it.
JobConnect ==
    /\ pc = "connect"
    /\ \/ /\ job' = [job EXCEPT !.conn = "open"]
          /\ pc' = "save"
       \/ /\ job' = [job EXCEPT !.articles = <<>>, !.outcome = "failed",
                                !.at = "connect"]
          /\ pc' = "sleep"
       \/ /\ job' = [job EXCEPT !.articles = <<>>, !.conn = "closed",
                                !.outcome = "failed", !.at = "create_table"]
          /\ pc' = "sleep"
    /\ UNCHANGED <<waited, storeVars, searchVars, scrapeVars, flightVars>>

\* try: db.save_articles(articles) finally: db.close(); an exception of
\* save_articles is caught by "except Exception" after the finally clause.
\* save_articles returns None; when it has returned the job prints
\* "Total articles saved to database: {len(articles)}".
JobSave ==
    /\ pc = "save"
    /\ \E fault \in Faults :
         \E prov \in ProvChoices(store, job.articles, fault) :
           LET res == SaveResult(store, job.articles, fault, prov) IN
           /\ store' = res.table
           /\ call' = res.call
           /\ job' = [job EXCEPT !.articles = <<>>,
                                 !.conn = close(job.conn),
                                 !.outcome = IF res.call.raised THEN "failed" ELSE "ok",
                                 !.at = IF res.call.raised THEN "save" ELSE "none",
                                 !.reported = IF res.call.raised THEN 0
                                              ELSE Len(job.articles),
                                 !.added = Cardinality(res.table) - Cardinality(store),
                                 !.texts = res.texts]
    /\ pc' = "sleep"
    /\ UNCHANGED <<waited, wpc, wtodo, wnew, listing, searchVars, scrapeVars, flightVars>>

-----------------------------------------------------------------------------
(* Specifications *)

NoListing ==
    [page_size |-> 0, source_name |-> Null, pages |-> <<>>, total |-> 0,
     response |-> <<>>]

\* nobody searches, no run is under way, no request is in flight, the process
\* of main has just started
BeyondClean ==
    /\ hits = NoHits
    /\ reply = NoReply
    /\ results = [s \in 1..Len(scrapers) |-> <<>>]
    /\ ended = {}
    /\ fetch = NoFetch
    /\ tally = [upstream |-> 0, failed |-> 0]
    /\ run = Run("gathering", "none", <<>>)
    /\ phase = [s \in 1..Len(scrapers) |-> "idle"]
    /\ inflight = [s \in 1..Len(scrapers) |-> 0]
    /\ pc = "startup"
    /\ job = NoJob
    /\ waited = 0

\* and no text has been handed to clean_content
BeyondStoreIdle ==
    /\ BeyondClean
    /\ cleaning = Cleaning(<<>>, 0, <<>>, <<>>)

Init ==
    /\ store = {}
    /\ call = NoCall
    /\ wpc = [w \in Writers |-> "idle"]
    /\ wtodo = [w \in Writers |-> <<>>]
    /\ wnew = [w \in Writers |-> <<>>]
    /\ listing = NoListing
    /\ BeyondStoreIdle

\* Spec: the scheduler commits one candidate batch after another
Next == \E articles \in Batches : SaveArticles(articles)

Spec == Init /\ [][Next]_vars

\* SpecBulk: the same, with long batches of distinct articles
NextBulk == \E articles \in BulkBatches : SaveArticles(articles)

SpecBulk == Init /\ [][NextBulk]_vars

\* SpecConc: two scheduler instances commit to the same store
NextConc ==
    \E w \in Writers :
        \/ \E articles \in ConcBatches(w) : Begin(w, articles)
        \/ CheckOne(w)
        \/ EmbedInsert(w)

SpecConc == Init /\ [][NextConc]_vars

\* SpecList: a client pages through a table that does not change meanwhile
InitList ==
    /\ store \in ListStores
    /\ call = NoCall
    /\ wpc = [w \in Writers |-> "idle"]
    /\ wtodo = [w \in Writers |-> <<>>]
    /\ wnew = [w \in Writers |-> <<>>]
    /\ listing = NoListing
    /\ BeyondStoreIdle

NextList ==
    \E page \in 1..(MaxRows + 1), page_size \in 1..MaxPageSize,
       source_name \in Sources \cup {Null} :
        GetArticlesFiltered(page, page_size, source_name)

SpecList == InitList /\ [][NextList]_vars

\* SpecSearch: searches, by direct calls of semantic_search and through the
\* endpoint, on a table that does not change meanwhile
Limits == (0 - 1)..MaxLimit

NextSearch ==
    \/ \E prompt \in Prompts, limit \in Limits,
          published_after \in Dates \cup {Null}, published_before \in Dates \cup {Null} :
            SemanticSearch(prompt, limit, published_after, published_before)
    \/ \E body \in Bodies : SearchEndpoint(body)
    \/ TakeResult

SpecSearch == InitList /\ [][NextSearch]_vars

\* SpecScrape: one scheduled run, from the adapters to the commit, on an empty
\* store
NextScrape ==
    \/ \E s \in 1..Len(scrapers) : RunScraper(s)
    \/ FanIn
    \/ SaveBatch

SpecScrape == Init /\ [][NextScrape]_vars

\* SpecClean: clean_content on a content text, and again on what it returned
InitClean ==
    /\ store = {}
    /\ call = NoCall
    /\ wpc = [w \in Writers |-> "idle"]
    /\ wtodo = [w \in Writers |-> <<>>]
    /\ wnew = [w \in Writers |-> <<>>]
    /\ listing = NoListing
    /\ BeyondClean
    /\ cleaning \in {Cleaning(text, 0, <<>>, <<>>) : text \in SeqsUpTo(Alphabet, MaxText)}

NextClean ==
    \/ CleanContent
    \/ CleanAgain

SpecClean == InitClean /\ [][NextClean]_vars

\* SpecJoin: the fan-in of one run_all_scrapers, the adapter tasks and their
\* item tasks ending in any order
NextJoin ==
    \/ \E s \in 1..Len(scrapers) : EndScraper(s)
    \/ FanIn

SpecJoin == Init /\ [][NextJoin]_vars

\* SpecFlight: the requests of the adapters during one run_all_scrapers
NextFlight ==
    \E s \in 1..Len(scrapers) :
        \/ StartListing(s)
        \/ ListingArrives(s)
        \/ ItemsArrive(s)

SpecFlight == Init /\ [][NextFlight]_vars

\* SpecSched: the process of main.  The steps of a run wait for the network
\* and nothing is assumed about them; the loop of main itself goes on:
\* time.sleep(1) returns and schedule.run_pending() starts the job when it is
\* due, so each of these two steps is taken when it stays possible.
NextSched ==
    \/ RunAtStartup
    \/ RunPending
    \/ Sleep
    \/ JobScrape
    \/ JobConnect
    \/ JobSave

SpecSched ==
    Init /\ [][NextSched]_vars /\ WF_vars(Sleep) /\ WF_vars(RunPending)

-----------------------------------------------------------------------------
(* Properties of save_articles running alone (Spec, SpecBulk) *)

\* the store and the provider both behaved during the last call
Healthy(c) == c.fault = "none" /\ \A k \in 1..Len(c.prov) : c.prov[k] = "ok"

\* one call in which the store does not fail and the provider answers every
\* pass of the loop in full
AllOk(table, articles) ==
    [k \in 1..NumBatches(Len(check_duplicates(table, articles))) |-> "ok"]

Commit(table, articles) == SaveResult(table, articles, "none", AllOk(table, articles))

\* C1: idempotent ingestion.  From every store state and for every candidate
\* batch, committing the batch and then committing it again leaves as many
\* rows as committing it once, and the second commit finds no new article.
C1_IdempotentIngestion ==
    \A articles \in Batches :
        LET once == Commit(store, articles)
            twice == Commit(once.table, articles)
        IN /\ twice.call.found = 0
           /\ Cardinality(twice.table) = Cardinality(once.table)

\* C2: duplicates inside one batch.  When two of the new articles of a call are
\* equivalent to each other (and store and provider behave), the call returns
\* without raising and persists some but not all of the new articles: the
\* first of the two is stored, the second is dropped as a duplicate.
C2_DuplicatesInsideOneBatch ==
    [][(call'.twins /\ Healthy(call'))
        => /\ ~ call'.raised
           /\ Cardinality(store') > Cardinality(store)
           /\ Cardinality(store') < Cardinality(store) + call'.found]_vars

\* C4: dedup key precedence.  In every store state, a candidate whose id is the
\* id of a stored row is not among the new articles, whatever its slug, title
\* and sourceName are.
C4_IdPrecedence ==
    \A a \in Articles : \A articles \in Batches :
        (\E r \in store : r.id = a.id)
            => \A i \in 1..Len(check_duplicates(store, articles)) :
                   check_duplicates(store, articles)[i] # a

\* a stored row and a candidate with its id that differs from it in slug,
\* title and sourceName; the last call found every candidate to be a duplicate
C4_Witness ==
    /\ \E r \in store : \E a \in Articles :
          /\ r.id = a.id /\ r.slug # a.slug
          /\ r.title # a.title /\ r.sourceName # a.sourceName
    /\ call.found = 0 /\ ~ call.raised

\* a call failed: the store failed a round trip, or a provider call raised
Failed(c) ==
    \/ c.fault = "check"
    \/ c.found > 0 /\ (c.fault = "insert" \/ FirstRaise(c.prov) # 0)

\* C5: atomic commit.  A call that raises leaves the store exactly as it was,
\* and a call in which the novelty check, an embedding pass (the first or a
\* later one) or the insert fails does raise.
C5_AtomicCommit ==
    [][/\ call'.raised => store' = store
       /\ Failed(call') => call'.raised]_vars

\* a call raised in the second pass of the embedding loop; a call raised in the
\* insert after its rows had been sent
C5_Witness ==
    /\ call.raised /\ call.found > batch_size
    /\ \/ Len(call.prov) = 2 /\ call.prov[1] = "ok" /\ call.prov[2] = "raise"
       \/ Healthy(call) /\ call.twins

\* C7: embedding order preservation.  Every stored row carries the vector the
\* provider computed for the row's own clean_content.
C7_EmbeddingOrder ==
    \A r \in store : r.embeddings = Vec(r.clean_content)

\* C8: no silent drop.  A call that returns without raising has persisted every
\* article the novelty check found new.
C8_NoSilentDrop ==
    [][(~ call'.raised /\ call'.found > 0)
        => Cardinality(store') = Cardinality(store) + call'.found]_vars

-----------------------------------------------------------------------------
(* Properties of the store under concurrent writers (SpecConc) *)

\* C3: uniqueness.  In every store state reached by commits of the two writers,
\* interleaved in any way and whether they succeed or fail, no two rows have
\* the same id, the same (slug, sourceName) or the same (title, sourceName).
C3_Uniqueness ==
    \A r1, r2 \in store :
        r1 # r2 => ~ SameId(r1, r2) /\ ~ SameSlugSource(r1, r2)
                   /\ ~ SameTitleSource(r1, r2)

\* a row is stored and the last call, whose article was new when it was
\* checked, was refused by the store and raised
C3_Witness ==
    /\ store # {}
    /\ call.raised /\ call.found > 0 /\ Healthy(call)

\* C6: every stored row, inserted or updated through ON CONFLICT, has an
\* embedding.
C6_EmbeddingsNotNull ==
    \A r \in store : r.embeddings # Null

\* the last call committed an ON CONFLICT update
C6_Witness ==
    /\ ~ call.raised /\ call.updated > 0
    /\ store # {}

\* the columns an ON CONFLICT update must leave alone are the same in r and q
SameFrame(r, q) ==
    /\ q.id = r.id /\ q.slug = r.slug /\ q.title = r.title
    /\ q.publishedAt = r.publishedAt /\ q.authorName = r.authorName
    /\ q.category = r.category /\ q.sourceName = r.sourceName
    /\ q.sourceUrl = r.sourceUrl /\ q.imageUrl = r.imageUrl
    /\ q.articleUrl = r.articleUrl /\ q.tags = r.tags
    /\ q.createdAt = r.createdAt

\* C21: no deletion and narrow updates.  Every step of the writers keeps every
\* stored id, and the row of a stored id keeps its id, slug, title,
\* publishedAt, authorName, category, sourceName, sourceUrl, imageUrl,
\* articleUrl, tags and createdAt (content, clean_content, embeddings and
\* updatedAt may change).
C21_NoDeletionNarrowUpdates ==
    [][\A r \in store : \E q \in store' : SameFrame(r, q)]_vars

\* a row was updated through ON CONFLICT by the other writer: it has the text
\* of the later scrape and still the author and the creation time of the first
C21_Witness ==
    \E r \in store :
        /\ r.updatedAt > r.createdAt
        /\ r.authorName # r.clean_content
        /\ r.embeddings = Vec(r.clean_content)

\* C25: guarded upsert under a race.  When the insert of a writer changes a
\* stored row, the candidate with the row's id that the writer proposed is
\* related to the row: it has the row's (slug, sourceName) or its (title,
\* sourceName); a row that shares only the id with it is left as it is.
C25_GuardedUpsert ==
    [][\A r \in store : \A q \in store' :
          (q.id = r.id /\ q # r) =>
              \E w \in Writers :
                  /\ wpc[w] = "embed" /\ wpc'[w] = "idle"
                  /\ \E i \in 1..Len(wnew[w]) :
                        /\ wnew[w][i].id = r.id
                        /\ \/ SameSlugSource(r, wnew[w][i])
                           \/ SameTitleSource(r, wnew[w][i])]_vars

\* C27: concurrent writers.  Whatever the interleaving of the checks and the
\* inserts of the two writers, an insert of a batch without in-batch twins, in
\* which store and provider behave, completes without raising: the ON CONFLICT
\* handling absorbs what the other writer committed since the check.
C27_RaceAbsorbed ==
    [][\A w \in Writers :
          (/\ wpc[w] = "embed" /\ wpc'[w] = "idle"
           /\ Healthy(call') /\ ~ call'.twins)
              => ~ call'.raised]_vars

-----------------------------------------------------------------------------
(* Properties of get_articles_filtered (SpecList) *)

\* the client has walked pages 1..ceil(total / page_size), and no further
WalkedAll ==
    /\ listing.page_size > 0
    /\ Len(listing.pages) = NumPages(listing.total, listing.page_size)

\* C9: pagination correctness.  The pages 1..ceil(total / page_size) of a walk,
\* put one after the other, hold every row that matches the filter exactly
\* once, ordered by publishedAt descending with unknown dates last.
C9_PaginationCorrectness ==
    WalkedAll =>
        LET all == Concat(listing.pages)
            rows == Filtered(store, listing.source_name)
        IN /\ Len(all) = Cardinality(rows)
           /\ \A r \in rows : \E i \in 1..Len(all) : all[i] = Listed(r)
           /\ Sorted(all)

\* rows of the filtered table that sort strictly before article a, and rows
\* other than a that do not sort strictly after it
StrictlyBefore(rows, a) ==
    {r \in rows : ~ DescNullsLast(a.publishedAt, r.publishedAt)}

NotAfter(rows, a) ==
    {r \in rows : r.id # a.id /\ DescNullsLast(r.publishedAt, a.publishedAt)}

\* C10: page size and total.  With N rows matching the filter, page p of size
\* s holds min(s, max(0, N - (p-1)*s)) articles, its i-th article stands at
\* position (p-1)*s + i of the filtered rows in listing order, and total = N.
C10_PageSizeAndTotal ==
    LET rows == Filtered(store, listing.source_name)
        N == Cardinality(rows)
        s == listing.page_size
    IN \A p \in 1..Len(listing.pages) :
        /\ listing.total = N
        /\ Len(listing.pages[p]) = Min(s, Max(0, N - (p - 1) * s))
        /\ \A i \in 1..Len(listing.pages[p]) :
              LET a == listing.pages[p][i]
                  pos == (p - 1) * s + i
              IN /\ Listed(CHOOSE r \in rows : r.id = a.id) = a
                 /\ Cardinality(StrictlyBefore(rows, a)) <= pos - 1
                 /\ pos - 1 <= Cardinality(NotAfter(rows, a))

\* a filtered walk: the second page is not empty, a page past the end is
\* empty, and the filter leaves some rows out
C10_Witness ==
    /\ listing.source_name # Null
    /\ listing.total < Cardinality(store)
    /\ Len(listing.pages) = 3
    /\ listing.pages[2] # <<>>
    /\ listing.pages[3] = <<>>

\* C24: tags are never null at the API boundary.  Every article of a page of
\* get_articles_filtered, and every article of the ArticlesPage made from it,
\* has a list as tags: the stored list, or the empty list when the stored
\* value is NULL.
C24_TagsNeverNull ==
    /\ \A p \in 1..Len(listing.pages) :
          \A i \in 1..Len(listing.pages[p]) :
              LET a == listing.pages[p][i]
                  r == CHOOSE x \in store : x.id = a.id
              IN /\ a.tags # Null
                 /\ a.tags = IF r.tags = Null THEN EmptyList ELSE r.tags
    /\ Len(listing.pages) > 0 =>
          /\ Len(listing.response) = Len(listing.pages[Len(listing.pages)])
          /\ \A i \in 1..Len(listing.response) :
                /\ listing.response[i].tags # Null
                /\ listing.response[i].tags
                      = listing.pages[Len(listing.pages)][i].tags

\* the last page holds a row stored with NULL tags and a row stored with a
\* list (the empty list or a list of tags)
C24_Witness ==
    /\ Len(listing.pages) > 0
    /\ \E i, j \in 1..Len(listing.response) :
          /\ (CHOOSE x \in store : x.id = listing.response[i].id).tags = Null
          /\ listing.response[i].tags = EmptyList
          /\ (CHOOSE x \in store : x.id = listing.response[j].id).tags # Null

-----------------------------------------------------------------------------
(* Properties of semantic_search and of POST /articles/search (SpecSearch) *)

\* C11: semantic search bound.  A call of semantic_search that returns gives at
\* most limit rows: as many as the date window admits, up to limit; each is a
\* row the window admits, none twice, with its similarity 1 - distance to the
\* prompt's vector; they come in descending order of similarity, and no
\* admitted row that was left out is more similar than a returned one.
C11_SearchBound ==
    (hits.called /\ ~ hits.raised) =>
        LET admitted == Admitted(store, hits.published_after, hits.published_before)
            p == Vec(hits.prompt)
            n == Len(hits.rows)
            sim(r) == 1 - Distance(r.embeddings, p)
        IN /\ n <= hits.limit
           /\ n = Min(hits.limit, Cardinality(admitted))
           /\ \A i \in 1..n :
                 \E r \in admitted :
                     /\ r.id = hits.rows[i].id
                     /\ r.embeddings = hits.rows[i].embeddings
                     /\ hits.rows[i].similarity = sim(r)
           /\ \A i, j \in 1..n : i # j => hits.rows[i].id # hits.rows[j].id
           /\ \A i, j \in 1..n :
                 i < j => hits.rows[i].similarity >= hits.rows[j].similarity
           /\ \A r \in admitted :
                 (\A i \in 1..n : hits.rows[i].id # r.id)
                     => \A i \in 1..n : hits.rows[i].similarity >= sim(r)

\* a search with limit 1 in a table of three rows: the window admits two rows
\* and leaves out the row most similar to the prompt; the more similar of the
\* two admitted rows is returned
C11_Witness ==
    /\ hits.called /\ ~ hits.raised
    /\ hits.limit = 1 /\ Len(hits.rows) = 1
    /\ Cardinality(store) = 3
    /\ Cardinality(Admitted(store, hits.published_after, hits.published_before)) = 2
    /\ \E r \in store :
          1 - Distance(r.embeddings, Vec(hits.prompt)) > hits.rows[1].similarity
    /\ \E r \in Admitted(store, hits.published_after, hits.published_before) :
          1 - Distance(r.embeddings, Vec(hits.prompt)) < hits.rows[1].similarity

\* C12: date window of search.  The rows semantic_search returns lie inside
\* the bounds given (a row of unknown publishedAt is not returned when a bound
\* is given); when the window admits no row the call returns the empty
\* sequence; and the endpoint then answers with success and no sources.
C12_DateWindow ==
    /\ (hits.called /\ ~ hits.raised) =>
          \A i \in 1..Len(hits.rows) :
              /\ hits.published_after # Null =>
                    /\ hits.rows[i].publishedAt # Null
                    /\ hits.rows[i].publishedAt >= hits.published_after
              /\ hits.published_before # Null =>
                    /\ hits.rows[i].publishedAt # Null
                    /\ hits.rows[i].publishedAt <= hits.published_before
    /\ (/\ hits.called /\ hits.outcome = "ok" /\ hits.limit >= 0
        /\ Admitted(store, hits.published_after, hits.published_before) = {})
          => (~ hits.raised /\ hits.rows = <<>>)
    /\ (/\ reply.called /\ reply.available
        /\ Admitted(store, reply.body.published_after,
                    reply.body.published_before) = {})
          => (reply.status = 200 /\ reply.sources = <<>>)

\* C13: the search endpoint accepts its request shape.  A request with a
\* prompt, with limit, published_after and published_before given or omitted,
\* is answered with success when the store and the providers are available.
C13_RequestShapeAccepted ==
    (reply.called /\ reply.available) => reply.status = 200

\* one entry per (sourceName, sourceUrl) pair of the articles, in the order in
\* which the pairs are first seen, each entry carrying its pair
PairsFirstSeen(articles) ==
    LET pairs == FirstSeen(articles)
    IN [n \in 1..Len(pairs) |->
           [source_name |-> pairs[n][1], source_url |-> pairs[n][2]]]

\* C23: source list derivation.  The sources the search endpoint derives from
\* the ranked articles semantic_search returned are one entry per distinct
\* (sourceName, sourceUrl) pair, in first-seen order, each carrying that pair
\* as source_name and source_url.
C23_SourceList ==
    (hits.called /\ ~ hits.raised) =>
        SourcesOf(hits.rows) = PairsFirstSeen(hits.rows)

-----------------------------------------------------------------------------
(* Properties of one scheduled run (SpecScrape) *)

\* the records of the items of a listing whose processing does not raise, in
\* listing order
Processed(s, items) ==
    SelectSeq([i \in 1..Len(items) |->
                  IF items[i].bad THEN NoneArticle ELSE Scraped(s, i, items[i])],
              LAMBDA a : ~ a.none)

\* C14: per-item failure isolation.  What an adapter returns for a listing is
\* the records of the items that processed, in listing order: no item that
\* failed, no None in its place, and none of the others missing.
C14_PerItemIsolation ==
    (fetch.called /\ ~ fetch.crashed)
        => fetch.out = Processed(fetch.scraper, fetch.listing)

\* C15: per-source failure isolation.  A run in which adapters failed still
\* returns, and its batch holds every article the adapters returned.
C15_PerSourceIsolation ==
    (tally.failed > 0 /\ run.state # "gathering") =>
        /\ run.state # "raised"
        /\ \A s \in 1..Len(results) :
              \A i \in 1..Len(results[s]) :
                  \E j \in 1..Len(run.articles) :
                      run.articles[j].id = results[s][i].id

\* C16: optional fields are tolerated end to end.  A missing publishedAt does
\* not make run_all_scrapers raise, and with store and provider available
\* save_articles returns without raising and every article of the batch,
\* whatever optional fields it lacks, is a row of the store afterwards.
C16_OptionalFieldsTolerated ==
    /\ run.at # "sort"
    /\ (run.state = "saved" /\ Healthy(call)) =>
          /\ ~ call.raised
          /\ \A i \in 1..Len(run.articles) :
                \E r \in store : r.id = run.articles[i].id

\* a publishedAt that is absent, null or empty
Missing(publishedAt) == publishedAt = Null \/ publishedAt = EmptyString

\* C17: fan-in sort.  The sort of run_all_scrapers does not raise, and the
\* batch is in descending order of publishedAt with the articles of missing
\* date after all dated ones.
C17_FanInSort ==
    /\ run.at # "sort"
    /\ (run.state \in {"returned", "saved"}) =>
          \A i, j \in 1..Len(run.articles) :
              i < j =>
                  \/ Missing(run.articles[j].publishedAt)
                  \/ /\ ~ Missing(run.articles[i].publishedAt)
                     /\ run.articles[i].publishedAt >= run.articles[j].publishedAt

\* C18: recency window.  Every dated article of the batch was published at or
\* after Now - past_period, and every gathered article of missing date is in
\* the batch.
C18_RecencyWindow ==
    (run.state \in {"returned", "saved"}) =>
        /\ \A i \in 1..Len(run.articles) :
              ~ Missing(run.articles[i].publishedAt)
                  => run.articles[i].publishedAt >= Now - past_period
        /\ \A s \in 1..Len(results) :
              \A i \in 1..Len(results[s]) :
                  Missing(results[s][i].publishedAt)
                      => \E j \in 1..Len(run.articles) :
                             run.articles[j].id = results[s][i].id

-----------------------------------------------------------------------------
(* Property of clean_content (SpecClean) *)

\* C30: clean_content yields a normal form.  Cleaning a text that
\* clean_content returned gives the same text.
C30_CleanIdempotent ==
    cleaning.passes = 2 => cleaning.twice = cleaning.once

-----------------------------------------------------------------------------
(* Property of the fan-in under any completion order (SpecJoin) *)

\* the place of a scraped article in the listing of its source
ListingIndex(a) == a.id - a.sourceName * (MaxItems + 1)

\* C28: join before sort, listing order kept.  The batch exists only when
\* every adapter task has ended; in whatever order the adapter tasks and their
\* item tasks ended, the slot of an adapter lists its articles in the order
\* of its listing, and two articles of one source with the same publishedAt
\* are in the batch in the order of the listing.
C28_JoinThenListingOrder ==
    /\ run.state # "gathering" => ended = 1..Len(scrapers)
    /\ \A s \in ended :
          \A i \in 1..Len(results[s]) :
              results[s][i].sourceName = s /\ ListingIndex(results[s][i]) = i
    /\ \A i, j \in 1..Len(run.articles) :
          (/\ i < j
           /\ run.articles[i].sourceName = run.articles[j].sourceName
           /\ run.articles[i].publishedAt = run.articles[j].publishedAt)
              => ListingIndex(run.articles[i]) < ListingIndex(run.articles[j])

\* a batch with two articles of one date from an adapter whose item tasks run
\* concurrently
C28_Witness ==
    /\ run.state = "returned"
    /\ \E i, j \in 1..Len(run.articles) :
          /\ i < j
          /\ run.articles[i].sourceName = run.articles[j].sourceName
          /\ run.articles[i].publishedAt = run.articles[j].publishedAt
          /\ scrapers[run.articles[i].sourceName] \in Concurrent

-----------------------------------------------------------------------------
(* Property of the requests in flight (SpecFlight) *)

\* requests in flight, over the adapters 1..n
RECURSIVE InFlight(_)
InFlight(n) == IF n = 0 THEN 0 ELSE inflight[n] + InFlight(n - 1)

\* C19: global concurrency cap.  At every moment of a run the requests in
\* flight, over all adapters, are at most max_concurrent.
C19_GlobalCap == InFlight(Len(scrapers)) <= max_concurrent

-----------------------------------------------------------------------------
(* Property of the scheduling loop (SpecSched) *)

FailurePoints == {"scrape", "connect", "create_table", "save"}

Novel(table, articles) ==
    SelectSeq(articles, LAMBDA a : ~ \E r \in table : Equivalent(r, a))

\* C26: embedding only for novel content.  The texts the save step of a run
\* hands to the provider are texts of the novel candidates of the batch, in
\* their order (all of them, or the first of them when a pass of the loop
\* fails), and never the text of a candidate that matches a stored row; when
\* every candidate matches a row no provider call is made and the table is
\* left as it is.
C26_EmbeddingOnlyForNovel ==
    [][pc = "save" =>
          LET novel == Novel(store, job.articles)
              sent == job'.texts
          IN /\ Len(sent) <= Len(novel)
             /\ \A k \in 1..Len(sent) : sent[k] = novel[k].clean_content
             /\ \A i \in 1..Len(job.articles) :
                   (\E r \in store : Equivalent(r, job.articles[i]))
                       => \A k \in 1..Len(sent) :
                              sent[k] # job.articles[i].clean_content
             /\ novel = <<>> =>
                   (sent = <<>> /\ call'.prov = <<>> /\ store' = store)]_vars

\* a run with a batch of two, one of them stored by an earlier run: one text
\* was sent, that of the other article, and one row was added
C26_Witness ==
    /\ job.outcome = "ok" /\ job.reported = 2 /\ job.added = 1
    /\ Len(job.texts) = 1 /\ Cardinality(store) = 2
    /\ \E r \in store :
          r.clean_content # job.texts[1] /\ r.createdAt < Clock(store) - 1

\* article k is in the batch the run is about to save
InBatch(k) ==
    \E i \in 1..Len(job.articles) : job.articles[i] = BulkArt(k)

\* C29: eventual persistence.  When store and provider never fail (no run
\* fails to scrape or to connect, no save meets a fault) and run after run
\* comes to its save step with article k in the batch and ends, article k is
\* a row of the table at some time.
C29_EventualPersistence ==
    \A k \in 1..2 :
        (/\ [](Healthy(call) /\ job.at \in {"none", "save"})
         /\ []<>(pc = "save" /\ InBatch(k))
         /\ []<>(pc = "sleep"))
            => <>(\E r \in store : Equivalent(r, BulkArt(k)))

\* C22: commit reports the number newly persisted.  When a run has ended
\* without raising, store and provider having behaved, the number it reports
\* as saved is the number of rows its save_articles call added to the table.
C22_ReportedCount ==
    (job.outcome = "ok" /\ Healthy(call)) => job.reported = job.added

====
